---- MODULE Spec2Model ----
(***************************************************************************)
(* A model of the niilo22 pipeline: the catalog file videos.json and the   *)
(* acquisition stage (download.py), the transcription stage and its        *)
(* progress ledger (transcribe.py).                                        *)
(*                                                                         *)
(* Strings the code takes apart (file names, titles) are sequences of      *)
(* tokens: the separators "_", ".", " " and the characters                 *)
(* sanitize_filename replaces are tokens of their own, every other token   *)
(* stands for a run of ordinary characters.                                *)
(***************************************************************************)
EXTENDS Integers, Sequences, FiniteSets, TLC

\* ------------------------------------------------------------------ bounds

MaxRuns == 3
MaxPages == 2
PageSize == 2

\* ------------------------------------------------------- sequence helpers

Range(s) == {s[i] : i \in 1..Len(s)}

IsPrefix(p, s) == Len(p) <= Len(s) /\ SubSeq(s, 1, Len(p)) = p

RECURSIVE Split(_, _)
\* str.split(sep): the segments between separators, empty segments kept
Split(s, sep) ==
    IF \A i \in 1..Len(s) : s[i] # sep
    THEN <<s>>
    ELSE LET k == CHOOSE i \in 1..Len(s) :
                      s[i] = sep /\ \A j \in 1..(i - 1) : s[j] # sep
         IN  <<SubSeq(s, 1, k - 1)>> \o Split(SubSeq(s, k + 1, Len(s)), sep)

RECURSIVE Join(_, _)
\* sep.join(parts)
Join(parts, sep) ==
    IF parts = <<>> THEN <<>>
    ELSE IF Len(parts) = 1 THEN parts[1]
    ELSE parts[1] \o <<sep>> \o Join(Tail(parts), sep)

NonEmpty(p) == p # <<>>

RECURSIVE Ascending(_)
\* the elements of a finite set of integers, smallest first
Ascending(S) ==
    IF S = {} THEN <<>>
    ELSE LET m == CHOOSE x \in S : \A y \in S : x <= y
         IN  <<m>> \o Ascending(S \ {m})

\* ------------------------------------------------------ download.py: names

ProblematicChars == {"\\", "/", ":", "\"", "*", "?", "<", ">", "|"}
Whitespace == {" ", "\t"}

\* title.translate(...) then " ".join(sanitized.split())
sanitize_filename(title) ==
    LET translated == [i \in 1..Len(title) |->
                          IF title[i] \in ProblematicChars THEN "-"
                          ELSE IF title[i] \in Whitespace THEN " "
                          ELSE title[i]]
    IN  Join(SelectSeq(Split(translated, " "), NonEmpty), " ")

\* publishedAt strings of the listing service
P1 == "2020-01-01T00:00:00Z"
P2 == "2020-02-01T00:00:00.000Z"
P3 == "2020-03-01T00:00:00Z"
PublishedAts == {P1, P2, P3}

\* the position of a publishedAt string in Python's string order: the sort key
StrRank(p) == CASE p = P1 -> 1 [] p = P2 -> 2 [] OTHER -> 3

ValueError == <<>>

\* strptime(published_at, '%Y-%m-%dT%H:%M:%SZ'): a string with fractional
\* seconds does not match the format and raises ValueError
get_unix_timestamp_and_date_string(published_at) ==
    CASE published_at = P1 -> <<"1577836800", "20200101">>
      [] published_at = P3 -> <<"1583020800", "20200301">>
      [] OTHER -> ValueError

\* f"{unix_ts}_{date_str}_{vid['id']}_{sanitized_title}"
OutputBase(vid) ==
    LET td == get_unix_timestamp_and_date_string(vid.publishedAt)
    IN  <<td[1], "_", td[2], "_", vid.id, "_">> \o sanitize_filename(vid.name)

Lower(tok) == CASE tok = "MP3" -> "mp3" [] tok = "MP4" -> "mp4" [] OTHER -> tok

\* os.path.splitext(fname)[1]: from the last dot on, "" when there is none
SplitExt(fname) ==
    LET dots == {i \in 2..Len(fname) : fname[i] = "."}
    IN  IF dots = {} THEN <<>>
        ELSE LET k == CHOOSE i \in dots : \A j \in dots : j <= i
             IN  SubSeq(fname, k, Len(fname))

\* os.path.splitext(fname)[0]
SplitStem(fname) == SubSeq(fname, 1, Len(fname) - Len(SplitExt(fname)))

ExtCandidates(download_format) ==
    IF Lower(download_format) = "mp3"
    THEN {<<".", "mp3">>}
    ELSE {<<".", "mp4">>, <<".", "mkv">>, <<".", "webm">>}

\* the extensions check_existing_file can return (the first one met in
\* os.listdir order); the empty set is None
check_existing_file(output_base, folder, download_format) ==
    {[i \in 1..Len(SplitExt(f)) |-> Lower(SplitExt(f)[i])] :
        f \in {g \in folder :
                 /\ IsPrefix(output_base, g)
                 /\ [i \in 1..Len(SplitExt(g)) |-> Lower(SplitExt(g)[i])]
                        \in ExtCandidates(download_format)}}

\* the file yt-dlp leaves after a successful run
FetchedFile(output_base, download_format) ==
    output_base \o <<".", IF Lower(download_format) = "mp3" THEN "mp3" ELSE "mp4">>

\* ---------------------------------------------------- download.py: catalog

TitleA == <<"My", " ", " ", "Title">>
TitleA2 == <<"New", "_", "Name">>
TitleB == <<"a", ":", "b">>
TitleC == <<"c">>

\* what the listing service can return for a video: snippet.resourceId.videoId,
\* snippet.title, snippet.publishedAt
SnA == [id |-> "idA", name |-> TitleA, publishedAt |-> P1]
SnA2 == [id |-> "idA", name |-> TitleA2, publishedAt |-> P1]
SnB == [id |-> "idB", name |-> TitleB, publishedAt |-> P2]
SnC == [id |-> "idC", name |-> TitleC, publishedAt |-> P3]
Snippets == {SnA, SnA2, SnB, SnC}
Ids == {"idA", "idB", "idC"}

Item(sn, flag) ==
    [id |-> sn.id, name |-> sn.name, publishedAt |-> sn.publishedAt,
     downloaded |-> flag]

EmptyData == [lastUpdated |-> "None", videos |-> <<>>]
Now == "now"

\* a read_videos_json that always starts fresh
read_videos_json_fresh(f) == EmptyData

\* read_videos_json: the default structure when the file is missing or
\* does not parse
read_videos_json(f) == IF f.kind = "ok" THEN f.data ELSE EmptyData

\* a lookup that never finds the id
video_already_in_db_never(videos_data, video_id) == FALSE

video_already_in_db(videos_data, video_id) ==
    \E i \in 1..Len(videos_data.videos) : videos_data.videos[i].id = video_id

\* {v["id"]: v for v in combined}.values(): one entry per id, at the place
\* of the id's first occurrence, holding the id's last occurrence
\* a merge that keeps every entry of the combined list
KeepAll(combined) == combined

DedupById(combined) ==
    LET firsts == Ascending({i \in 1..Len(combined) :
                     \A j \in 1..(i - 1) : combined[j].id # combined[i].id})
        last(id) == CHOOSE i \in 1..Len(combined) :
                     /\ combined[i].id = id
                     /\ \A j \in (i + 1)..Len(combined) : combined[j].id # id
    IN  [k \in 1..Len(firsts) |-> combined[last(combined[firsts[k]].id)]]

RECURSIVE InsertStable(_, _, _)
\* idxs with j put after every index whose key is not greater
InsertStable(idxs, j, vs) ==
    IF idxs = <<>> THEN <<j>>
    ELSE IF StrRank(vs[idxs[Len(idxs)]].publishedAt) <= StrRank(vs[j].publishedAt)
    THEN Append(idxs, j)
    ELSE Append(InsertStable(SubSeq(idxs, 1, Len(idxs) - 1), j, vs), idxs[Len(idxs)])

RECURSIVE SortedIdx(_, _)
\* the stable sort of vs[1..n] by publishedAt, as indices into vs
SortedIdx(vs, n) ==
    IF n = 0 THEN <<>> ELSE InsertStable(SortedIdx(vs, n - 1), n, vs)

\* sorted(videos, key=lambda x: x["publishedAt"])
SortByPublishedAt(vs) ==
    LET ix == SortedIdx(vs, Len(vs)) IN [k \in 1..Len(vs) |-> vs[ix[k]]]

\* the items of one page that are not in the catalog, as new entries
NewOnPage(videos_data, items) ==
    LET fresh == SelectSeq(items, LAMBDA sn : ~video_already_in_db(videos_data, sn.id))
    IN  [k \in 1..Len(fresh) |-> Item(fresh[k], FALSE)]

\* combined = videos + new_videos; deduplicate; sort oldest first
MergeNew(videos, new_videos) == SortByPublishedAt(DedupById(videos \o new_videos))

\* --------------------------------------------------- download.py: the state

Formats == {"mp3", "mp4"}
Envs == {"ok", "nokey", "nochannel"}
Outcomes == {"ok", "fail"}

VARIABLES
    file,          \* videos.json: [kind: absent | ok | partial, data]
    disk,          \* the file names in DOWNLOAD_FOLDER
    pc,            \* where main() of download.py is; "off": no process
    env,           \* YT_API_KEY / YT_CHANNEL as loaded at import
    vd,            \* videos_data
    newVideos,     \* new_videos of fetch_new_videos
    stopFetching,  \* stop_fetching
    pages,         \* listing requests made by this run
    fmt,           \* download_format
    order,         \* sorted_videos, as indices into vd.videos
    idx,           \* position of the loop in sorted_videos
    completed,     \* completed
    runs,          \* runs of main() started so far
    att,           \* per id, the results of the yt-dlp calls made so far
    failedIds,     \* ids whose yt-dlp call failed in this run
    killed,        \* the run that was killed between two items, 0 when none was
    init0,         \* the catalog, folder and format the first run started with
    seen,          \* the [id, downloaded] pairs videos.json has held so far
    ignoredDiff,   \* this run's listing repeated a catalog id under another title
    lastPage       \* the response to this run's last listing request

dlVars == <<file, disk, pc, env, vd, newVideos, stopFetching, pages, fmt, order,
            idx, completed, runs, att, failedIds, killed, init0, seen, ignoredDiff,
            lastPage>>

\* the state of transcribe.py
VARIABLES
    ledger,       \* the lines of transcription_progress.txt
    corpus,       \* the output folder: JSON file name -> [kind: partial | ok, data]
    tpc,          \* where transcribe_audio_files is; "off": no process
    alreadyDone,  \* already_done
    queue,        \* mp3_files
    ti,           \* position of the for loop in mp3_files
    cur,          \* transcription_data
    truns,        \* runs started so far
    tcalls,       \* calls of batched_model.transcribe made by this run
    reachedT,     \* the files transcribe_file was called for in this run
    failedT,      \* the files whose transcription failed in this run
    ledger0,      \* the length of the ledger when this run started
    prevRun       \* how the run before this one ended: none | killed | clean | failed

trVars == <<ledger, corpus, tpc, alreadyDone, queue, ti, cur, truns, tcalls,
            reachedT, failedT, ledger0, prevRun>>

\* the state of search.py
VARIABLES
    spc,          \* where search_word_in_transcriptions is; "off": no process
    rawQuery,     \* what the user types at the prompt of main()
    search_word,  \* search_word
    threshold,    \* threshold
    max_workers,  \* the worker processes of the pool
    fut,          \* future_to_file: JSON file name -> [st, info, res]
    all_matches,  \* all_matches
    scored,       \* JSON file name -> the calls of process_file made for it
    searches,     \* searches started so far
    prev          \* the search before this one: its threshold, workers, matches

srVars == <<spc, rawQuery, search_word, threshold, max_workers, fut, all_matches,
            scored, searches, prev>>

\* no listing request made
NoPage == [kind |-> "none", items |-> <<>>, more |-> FALSE]

Absent == [kind |-> "absent", data |-> EmptyData]
Partial == [kind |-> "partial", data |-> EmptyData]
Stored(data) == [kind |-> "ok", data |-> data]
\* bytes that are not UTF-8: reading them raises UnicodeDecodeError, a
\* ValueError that is neither json.JSONDecodeError nor IOError
Undecodable == [kind |-> "undecodable", data |-> EmptyData]
\* well-formed JSON without the "videos" key, such as {}: json.load returns it
Misshapen == [kind |-> "misshapen", data |-> EmptyData]

\* the file makes the run end with an exception nothing catches: in
\* read_videos_json itself (UnicodeDecodeError), or at the first
\* videos_data["videos"] after it (KeyError)
ReadRaises(f) == f.kind \in {"undecodable", "misshapen"}

Running == pc \notin {"off", "done", "error"}

\* the memory of a process that does not run
NoProcess ==
    /\ env' = "ok"
    /\ vd' = EmptyData
    /\ newVideos' = <<>>
    /\ stopFetching' = FALSE
    /\ pages' = 0
    /\ fmt' = "mp3"
    /\ order' = <<>>
    /\ idx' = 0
    /\ completed' = 0
    /\ failedIds' = {}
    /\ ignoredDiff' = FALSE
    /\ lastPage' = NoPage

\* main(): read_videos_json, then fetch_new_videos up to its paging loop.
\* e is the environment, r what resolving the channel and its uploads
\* playlist does: "ok", "noplaylist" (the except branch, which returns) or
\* "raise" (get_channel_id raises, nothing catches it).
\* n is the number the run is counted as
Launch(e, r, n) ==
    /\ pc \in {"off", "done", "error"}
    /\ ~ReadRaises(file)
    /\ runs' = n
    /\ env' = e
    /\ vd' = read_videos_json(file)
    /\ newVideos' = <<>>
    /\ stopFetching' = FALSE
    /\ pages' = 0
    /\ fmt' = "mp3"
    /\ order' = <<>>
    /\ idx' = 0
    /\ completed' = 0
    /\ failedIds' = {}
    /\ ignoredDiff' = FALSE
    /\ lastPage' = NoPage
    /\ pc' = IF e # "ok" THEN "choose"
             ELSE IF r = "raise" THEN "error"
             ELSE IF r = "noplaylist" THEN "choose"
             ELSE "fetch"
    /\ UNCHANGED <<file, disk, att, killed, init0, seen, trVars, srVars>>

Start(e, r) == runs < MaxRuns /\ Launch(e, r, runs + 1)

\* the new videos thrown away after the loop
AfterLoopDrop(new) ==
    /\ newVideos' = new
    /\ vd' = vd
    /\ pc' = "choose"

\* after the paging loop: merge and write when there are new videos
AfterLoop(new) ==
    /\ newVideos' = new
    /\ IF new # <<>>
       THEN /\ vd' = [vd EXCEPT !.videos = MergeNew(vd.videos, new)]
            /\ pc' = "fw"
       ELSE /\ vd' = vd
            /\ pc' = "choose"

\* a listed item whose id the catalog holds under another title
RepeatsRenamed(videos_data, items) ==
    \E i \in 1..Len(items), j \in 1..Len(videos_data.videos) :
        /\ videos_data.videos[j].id = items[i].id
        /\ videos_data.videos[j].name # items[i].name

\* one pass of the while loop whose request succeeds: the page holds items,
\* more says whether it carries a nextPageToken
FetchPage(items, more) ==
    /\ pc = "fetch"
    /\ pages < MaxPages
    /\ (pages + 1 = MaxPages) => ~more
    /\ pages' = pages + 1
    /\ ignoredDiff' = (ignoredDiff \/ RepeatsRenamed(vd, items))
    /\ lastPage' = [kind |-> "page", items |-> items, more |-> more]
    /\ LET new == newVideos \o NewOnPage(vd, items)
           stop == stopFetching
                     \/ \E i \in 1..Len(items) : video_already_in_db(vd, items[i].id)
       IN  /\ stopFetching' = stop
           /\ IF ~more \/ stop
              THEN AfterLoop(new)
              ELSE /\ newVideos' = new
                   /\ vd' = vd
                   /\ pc' = "fetch"
    /\ UNCHANGED <<file, disk, env, fmt, order, idx, completed, runs, att,
                   failedIds, killed, init0, seen, trVars, srVars>>

\* one pass of the while loop whose request raises HttpError: break
FetchHttpError ==
    /\ pc = "fetch"
    /\ pages < MaxPages
    /\ pages' = pages + 1
    /\ lastPage' = [kind |-> "error", items |-> <<>>, more |-> FALSE]
    /\ AfterLoop(newVideos)
    /\ UNCHANGED <<file, disk, env, stopFetching, fmt, order, idx, completed, runs,
                   att, failedIds, killed, init0, seen, ignoredDiff, trVars, srVars>>

\* write_videos_json, first half: the stamp, and open(VIDEOS_JSON, "w"),
\* which truncates the file
WriteOpen ==
    /\ pc \in {"fw", "dw"}
    /\ vd' = [vd EXCEPT !.lastUpdated = Now]
    /\ file' = Partial
    /\ pc' = IF pc = "fw" THEN "fw2" ELSE "dw2"
    /\ UNCHANGED <<disk, env, newVideos, stopFetching, pages, fmt, order, idx,
                   completed, runs, att, failedIds, killed, init0, seen,
                   ignoredDiff, lastPage, trVars, srVars>>

\* the [id, downloaded] pairs of a catalog
Pairs(videos) ==
    {[id |-> videos[i].id, downloaded |-> videos[i].downloaded] : i \in 1..Len(videos)}

\* write_videos_json, second half: json.dump and close; the caller goes on
WriteDump ==
    /\ pc \in {"fw2", "dw2"}
    /\ file' = Stored(vd)
    /\ seen' = seen \cup Pairs(vd.videos)
    /\ IF pc = "fw2"
       THEN /\ pc' = "choose"
            /\ UNCHANGED <<idx, completed>>
       ELSE /\ pc' = "dl"
            /\ idx' = idx + 1
            /\ completed' = completed + 1
    /\ UNCHANGED <<disk, env, vd, newVideos, stopFetching, pages, fmt, order,
                   runs, att, failedIds, killed, init0, ignoredDiff, lastPage, trVars, srVars>>

\* fetch_new_videos has returned (its locals are gone); the format prompt of
\* main(), and download_videos up to its loop
Choose(f) ==
    /\ pc = "choose"
    /\ newVideos' = <<>>
    /\ stopFetching' = FALSE
    /\ pages' = 0
    /\ ignoredDiff' = FALSE
    /\ lastPage' = NoPage
    /\ fmt' = f
    /\ order' = SortedIdx(vd.videos, Len(vd.videos))
    /\ idx' = 1
    /\ completed' = 0
    /\ pc' = "dl"
    /\ UNCHANGED <<file, disk, env, vd, runs, att, failedIds, killed, init0, seen,
                   trVars, srVars>>

Cur == vd.videos[order[idx]]
AtItem == pc = "dl" /\ idx <= Len(order)

\* the flag left as it is
MarkNothing == vd' = vd

\* vid["downloaded"] = True
MarkDownloaded ==
    vd' = [vd EXCEPT !.videos[order[idx]].downloaded = TRUE]

\* the catalog written once at the end of the run instead
SaveAtExit == FALSE

\* write_videos_json(videos_data) is the statement after vid["downloaded"] = True
SaveAfterMark == TRUE

\* after the mark: the write, or (were there none) completed += 1 and the next item
AfterMark ==
    IF SaveAfterMark
    THEN /\ pc' = "dw"
         /\ UNCHANGED <<idx, completed>>
    ELSE /\ pc' = "dl"
         /\ idx' = idx + 1
         /\ completed' = completed + 1

\* if vid.get("downloaded", False): continue
DlSkip ==
    /\ AtItem
    /\ Cur.downloaded
    /\ idx' = idx + 1
    /\ completed' = completed + 1
    /\ UNCHANGED <<file, disk, pc, env, vd, newVideos, stopFetching, pages, fmt,
                   order, runs, att, failedIds, killed, init0, seen, ignoredDiff, lastPage,
                   trVars, srVars>>

\* get_unix_timestamp_and_date_string raises ValueError: nothing in
\* download_videos or main catches it, the process ends
DlRaise ==
    /\ AtItem
    /\ ~Cur.downloaded
    /\ get_unix_timestamp_and_date_string(Cur.publishedAt) = ValueError
    /\ pc' = "error"
    /\ UNCHANGED <<file, disk, env, vd, newVideos, stopFetching, pages, fmt, order,
                   idx, completed, runs, att, failedIds, killed, init0, seen,
                   ignoredDiff, lastPage, trVars, srVars>>

\* found_ext: mark the item and write the catalog
DlExisting ==
    /\ AtItem
    /\ ~Cur.downloaded
    /\ get_unix_timestamp_and_date_string(Cur.publishedAt) # ValueError
    /\ check_existing_file(OutputBase(Cur), disk, fmt) # {}
    /\ MarkDownloaded
    /\ AfterMark
    /\ UNCHANGED <<file, disk, env, newVideos, stopFetching, pages, fmt, order,
                   runs, att, failedIds, killed, init0, seen, ignoredDiff, lastPage, trVars, srVars>>

\* subprocess.run(cmd): res is what yt-dlp does; the call is written to
\* the history att when track is set
DlFetch(res, track) ==
    /\ AtItem
    /\ ~Cur.downloaded
    /\ get_unix_timestamp_and_date_string(Cur.publishedAt) # ValueError
    /\ check_existing_file(OutputBase(Cur), disk, fmt) = {}
    /\ att' = IF track THEN [att EXCEPT ![Cur.id] = Append(@, res)] ELSE att
    /\ IF res = "ok"
       THEN /\ disk' = disk \cup {FetchedFile(OutputBase(Cur), fmt)}
            /\ MarkDownloaded
            /\ AfterMark
            /\ UNCHANGED failedIds
       ELSE /\ failedIds' = failedIds \cup {Cur.id}
            /\ idx' = idx + 1
            /\ UNCHANGED <<disk, vd, pc, completed>>
    /\ UNCHANGED <<file, env, newVideos, stopFetching, pages, fmt, order,
                   runs, killed, init0, seen, ignoredDiff, lastPage, trVars, srVars>>

\* the numbers of the line printed after the loop: total_videos, completed
Tally == [total |-> Len(order), completed |-> completed]

\* the loop is over: the tally is printed, main() returns
DlDone ==
    /\ pc = "dl"
    /\ idx > Len(order)
    /\ pc' = "done"
    /\ UNCHANGED <<file, disk, env, vd, newVideos, stopFetching, pages, fmt, order,
                   idx, completed, runs, att, failedIds, killed, init0, seen,
                   ignoredDiff, lastPage, trVars, srVars>>

\* the process is killed: its memory is gone, the files stay as they are
Crash ==
    /\ Running
    /\ pc' = "off"
    /\ NoProcess
    /\ UNCHANGED <<file, disk, runs, att, killed, init0, seen, trVars, srVars>>

\* the first run is killed between two items of the download loop
KillBetween ==
    /\ pc = "dl"
    /\ runs = 1
    /\ killed = 0
    /\ killed' = runs
    /\ pc' = "off"
    /\ NoProcess
    /\ UNCHANGED <<file, disk, runs, att, init0, seen, trVars, srVars>>

\* ------------------------------------------------- download.py: behaviours

\* the responses of the listing service: up to PageSize items
ListingPages == UNION {[1..n -> Snippets] : n \in 0..PageSize}

\* files put into the folder by hand before the first run
PrePopulated == {{}, {FetchedFile(OutputBase(Item(SnA, FALSE)), "MP3")}}

NoAttempts == [i \in Ids |-> <<>>]

InitDl ==
    /\ file = Absent
    /\ disk \in PrePopulated
    /\ pc = "off"
    /\ env = "ok"
    /\ vd = EmptyData
    /\ newVideos = <<>>
    /\ stopFetching = FALSE
    /\ pages = 0
    /\ fmt = "mp3"
    /\ order = <<>>
    /\ idx = 0
    /\ completed = 0
    /\ runs = 0
    /\ att = NoAttempts
    /\ failedIds = {}
    /\ killed = 0
    /\ init0 = [videos |-> <<>>, disk |-> disk, fmt |-> "mp3"]
    /\ seen = {}
    /\ ignoredDiff = FALSE
    /\ lastPage = NoPage

NextDl ==
    \/ \E e \in Envs, r \in {"ok", "noplaylist", "raise"} : Start(e, r)
    \/ \E items \in ListingPages, more \in BOOLEAN : FetchPage(items, more)
    \/ FetchHttpError
    \/ WriteOpen
    \/ WriteDump
    \/ \E f \in Formats : Choose(f)
    \/ DlSkip
    \/ DlRaise
    \/ DlExisting
    \/ \E res \in Outcomes : DlFetch(res, FALSE)
    \/ DlDone
    \/ Crash

RECURSIVE RunFrom(_, _, _, _, _, _)
\* the catalog download_videos ends with when it goes through ord from
\* place i on without being killed, res[id] being what yt-dlp does for id
RunFrom(videos, ord, i, folder, f, res) ==
    IF i > Len(ord) THEN videos
    ELSE LET v == videos[ord[i]]
             marked == [videos EXCEPT ![ord[i]].downloaded = TRUE]
         IN  IF v.downloaded
             THEN RunFrom(videos, ord, i + 1, folder, f, res)
             ELSE IF get_unix_timestamp_and_date_string(v.publishedAt) = ValueError
             THEN videos
             ELSE IF check_existing_file(OutputBase(v), folder, f) # {}
             THEN RunFrom(marked, ord, i + 1, folder, f, res)
             ELSE IF res[v.id] = "ok"
             THEN RunFrom(marked, ord, i + 1,
                          folder \cup {FetchedFile(OutputBase(v), f)}, f, res)
             ELSE RunFrom(videos, ord, i + 1, folder, f, res)

\* one run of download_videos that is not killed
Uninterrupted(videos, folder, f, res) ==
    RunFrom(videos, SortedIdx(videos, Len(videos)), 1, folder, f, res)

\* the catalogs a first run can start with: any of three videos, flagged or not
CatalogOf(c) ==
    LET present == SelectSeq(<<SnA, SnB, SnC>>, LAMBDA sn : c[sn.id] # "absent")
    IN  SortByPublishedAt([k \in 1..Len(present) |->
                              Item(present[k], c[present[k].id] = "done")])
Catalogs == {CatalogOf(c) : c \in [Ids -> {"absent", "new", "done"}]}

\* the files the folder can hold before the first run
ResumeFiles ==
    {FetchedFile(OutputBase(Item(SnA, FALSE)), "MP3"),
     FetchedFile(OutputBase(Item(SnC, FALSE)), "mp3"),
     FetchedFile(OutputBase(Item(SnC, FALSE)), "mp4")}

InitResume ==
    /\ \E c \in Catalogs, d \in SUBSET ResumeFiles, f \in Formats :
          /\ file = IF c = <<>> THEN Absent
                    ELSE Stored([lastUpdated |-> Now, videos |-> c])
          /\ disk = d
          /\ init0 = [videos |-> c, disk |-> d, fmt |-> f]
          /\ seen = Pairs(c)
    /\ pc = "off"
    /\ env = "ok"
    /\ vd = EmptyData
    /\ newVideos = <<>>
    /\ stopFetching = FALSE
    /\ pages = 0
    /\ fmt = "mp3"
    /\ order = <<>>
    /\ idx = 0
    /\ completed = 0
    /\ runs = 0
    /\ att = NoAttempts
    /\ failedIds = {}
    /\ killed = 0
    /\ ignoredDiff = FALSE
    /\ lastPage = NoPage

\* the first run, and the run that follows the kill
StartOrResume ==
    /\ runs = 0 \/ (runs = 1 /\ killed = 1)
    /\ Start("ok", "ok")

\* the listing has nothing new
ListNothing == FetchPage(<<>>, FALSE)

\* both runs are asked for the same format
ChooseSame == Choose(init0.fmt)

NextResume ==
    \/ StartOrResume
    \/ ListNothing
    \/ ChooseSame
    \/ DlSkip
    \/ DlRaise
    \/ DlExisting
    \/ \E res \in Outcomes : DlFetch(res, TRUE)
    \/ WriteOpen
    \/ WriteDump
    \/ DlDone
    \/ KillBetween

\* main() on a videos.json that read_videos_json does not turn into the
\* default structure: the exception ends the process before anything is
\* written (write_videos_json and yt-dlp come after the first
\* videos_data["videos"])
LoadRaise ==
    /\ pc \in {"off", "done", "error"}
    /\ runs < MaxRuns
    /\ ReadRaises(file)
    /\ runs' = runs + 1
    /\ pc' = "error"
    /\ NoProcess
    /\ UNCHANGED <<file, disk, att, killed, init0, seen, trVars, srVars>>

\* what videos.json can be before a run: missing, cut short, not UTF-8,
\* JSON of another shape, or a catalog
LoadFiles ==
    {Absent, Partial, Undecodable, Misshapen}
        \cup {Stored([lastUpdated |-> Now, videos |-> c]) : c \in Catalogs \ {<<>>}}

InitLoad ==
    /\ \E f \in LoadFiles, d \in SUBSET ResumeFiles, g \in Formats :
          /\ file = f
          /\ disk = d
          /\ init0 = [videos |-> f.data.videos, disk |-> d, fmt |-> g]
          /\ seen = Pairs(f.data.videos)
    /\ pc = "off"
    /\ env = "ok"
    /\ vd = EmptyData
    /\ newVideos = <<>>
    /\ stopFetching = FALSE
    /\ pages = 0
    /\ fmt = "mp3"
    /\ order = <<>>
    /\ idx = 0
    /\ completed = 0
    /\ runs = 0
    /\ att = NoAttempts
    /\ failedIds = {}
    /\ killed = 0
    /\ ignoredDiff = FALSE
    /\ lastPage = NoPage

\* a run with any environment, the channel resolving
StartAny == \E e \in Envs : Start(e, "ok")

NextLoad ==
    \/ StartAny
    \/ LoadRaise
    \/ ListNothing
    \/ ChooseSame
    \/ DlSkip
    \/ DlRaise
    \/ DlExisting
    \/ \E res \in Outcomes : DlFetch(res, TRUE)
    \/ WriteOpen
    \/ WriteDump
    \/ DlDone

\* a run after the first run: it follows a run that has ended
StartAgain == Start("ok", "ok")

\* yt-dlp in the first run: it succeeds or fails
FetchWhileFailing == runs = 1 /\ \E res \in Outcomes : DlFetch(res, FALSE)

\* yt-dlp from the second run on: it succeeds
FetchRecovered == runs >= 2 /\ DlFetch("ok", FALSE)

\* the runs after the MaxRuns-th, which are not counted
Rerun == runs = MaxRuns /\ Launch("ok", "ok", runs)

\* download.py run again and again over a fixed catalog, never killed
NextConverge ==
    \/ StartAgain
    \/ Rerun
    \/ ListNothing
    \/ ChooseSame
    \/ DlSkip
    \/ DlRaise
    \/ DlExisting
    \/ FetchWhileFailing
    \/ FetchRecovered
    \/ WriteOpen
    \/ WriteDump
    \/ DlDone

\* ------------------------------------------------------------ transcribe.py

MaxTRuns == 3

\* the media files the input folder (./videos, the download folder) can hold
MediaA == FetchedFile(OutputBase(Item(SnA, FALSE)), "mp3")
MediaC == FetchedFile(OutputBase(Item(SnC, FALSE)), "mp3")
MediaPlain == <<"notes", ".", "mp3">>
MediaVideo == FetchedFile(OutputBase(Item(SnC, FALSE)), "mp4")
MediaPool == {MediaA, MediaC, MediaPlain, MediaVideo}

\* the position of a path in Python's string order: what list.sort() compares
PathRank(f) ==
    CASE f = MediaA -> 1 [] f = MediaC -> 2 [] f = MediaVideo -> 3 [] OTHER -> 4

RECURSIVE SortPaths(_)
\* mp3_files.sort()
SortPaths(S) ==
    IF S = {} THEN <<>>
    ELSE LET m == CHOOSE x \in S : \A y \in S : PathRank(x) <= PathRank(y)
         IN  <<m>> \o SortPaths(S \ {m})

EndsWith(f, suffix) ==
    Len(suffix) <= Len(f) /\ SubSeq(f, Len(f) - Len(suffix) + 1, Len(f)) = suffix

\* the same files, the last name first
Mp3FilesDown(folder) ==
    LET up == SortPaths({f \in folder : EndsWith(f, <<".", "mp3">>)})
    IN  [k \in 1..Len(up) |-> up[Len(up) + 1 - k]]

\* [f for f in os.listdir(input_folder) if f.endswith(".mp3")], sorted
Mp3Files(folder) == SortPaths({f \in folder : EndsWith(f, <<".", "mp3">>)})

\* what the speech-to-text engine can return for a file
WordLists == {<<>>, <<[word |-> "kissa", start |-> 10, end |-> 15]>>}

\* a line of bytes that are not UTF-8
NotUtf8 == <<"0xff">>

\* f.read() of the file opened with encoding="utf-8" returns; otherwise it
\* raises UnicodeDecodeError, and load_progress has no try
ReadableLedger(progress) == \A i \in 1..Len(progress) : progress[i] # NotUtf8

\* a load_progress that reads nothing back
load_progress_nothing(progress) == {}

\* set(f.read().splitlines()), the empty set when the file is missing
load_progress(progress) == Range(progress)

\* the progress file opened for writing: the name is its only line
save_progress_overwrite(progress, filename) == <<filename>>

\* f.write(filename + "\n") in append mode
save_progress(progress, filename) == Append(progress, filename)

\* a membership test that never finds the name
IsAlreadyDoneNever(mp3_filename, already_done) == FALSE

\* if mp3_filename in already_done
IsAlreadyDone(mp3_filename, already_done) == mp3_filename \in already_done

\* os.path.splitext(mp3_filename)[0] + ".json"
JsonName(mp3_filename) == SplitStem(mp3_filename) \o <<".", "json">>

\* mp3_filename.split("_")[2] raises IndexError for fewer than three segments
HasVideoId(mp3_filename) == Len(Split(mp3_filename, "_")) >= 3

TranscriptionData(mp3_filename, words) ==
    [file_name |-> mp3_filename,
     youtube_id |-> Split(mp3_filename, "_")[2 + 1],
     words |-> words]

\* the progress file appended before the JSON file is written
StepAfterLedgerFirst(step) ==
    CASE step = "call" -> "append"
      [] step = "append" -> "open"
      [] step = "open" -> "dump"
      [] OTHER -> "loop"

\* the order of the steps of transcribe_file after the words are collected:
\* open the JSON file, dump the data, then append to the progress file
StepAfter(step) ==
    CASE step = "call" -> "open"
      [] step = "open" -> "dump"
      [] step = "dump" -> "append"
      [] OTHER -> "loop"

\* a failure that ends the for loop
AfterFailureBreak(i, n) == n + 1

\* the except branch of transcribe_file returns False and the for loop of
\* transcribe_audio_files goes on with the next file
AfterFailure(i, n) == i + 1

NoData == [file_name |-> <<>>, youtube_id |-> <<>>, words |-> <<>>]
NoCorpus == [n \in {} |-> NoData]

TRunning == tpc \notin {"off", "done"}
AtFile == tpc = "loop" /\ ti <= Len(queue)

\* a step of transcribe_file is over: the next one, or back in the for loop
\* at the next file
GoAfter(step) ==
    /\ tpc' = StepAfter(step)
    /\ ti' = IF StepAfter(step) = "loop" THEN ti + 1 ELSE ti

\* transcribe_audio_files up to its for loop
TStart ==
    /\ tpc \in {"off", "done"}
    /\ truns < MaxTRuns
    /\ ReadableLedger(ledger)
    /\ truns' = truns + 1
    /\ alreadyDone' = load_progress(ledger)
    /\ queue' = Mp3Files(disk)
    /\ ti' = 1
    /\ cur' = NoData
    /\ tcalls' = 0
    /\ reachedT' = {}
    /\ failedT' = {}
    /\ ledger0' = Len(ledger)
    /\ prevRun' = IF tpc = "done" THEN (IF failedT = {} THEN "clean" ELSE "failed")
                  ELSE IF truns = 0 THEN "none" ELSE "killed"
    /\ tpc' = "loop"
    /\ UNCHANGED <<ledger, corpus, dlVars, srVars>>

\* transcribe_file returns False at once: the file is in already_done
TSkip ==
    /\ AtFile
    /\ IsAlreadyDone(queue[ti], alreadyDone)
    /\ reachedT' = reachedT \cup {queue[ti]}
    /\ ti' = ti + 1
    /\ UNCHANGED <<ledger, corpus, tpc, alreadyDone, queue, cur, truns, tcalls,
                   failedT, ledger0, prevRun, dlVars, srVars>>

\* batched_model.transcribe and the collection of the words; res is what the
\* engine does, words what it returns
TCall(res, words) ==
    /\ AtFile
    /\ ~IsAlreadyDone(queue[ti], alreadyDone)
    /\ reachedT' = reachedT \cup {queue[ti]}
    /\ tcalls' = tcalls + 1
    /\ IF res = "ok" /\ HasVideoId(queue[ti])
       THEN /\ cur' = TranscriptionData(queue[ti], words)
            /\ GoAfter("call")
            /\ UNCHANGED failedT
       ELSE /\ failedT' = failedT \cup {queue[ti]}
            /\ ti' = AfterFailure(ti, Len(queue))
            /\ UNCHANGED <<cur, tpc>>
    /\ UNCHANGED <<ledger, corpus, alreadyDone, queue, truns, ledger0, prevRun, dlVars, srVars>>

\* open(json_path, "w"): the file exists and is empty
TOpen ==
    /\ tpc = "open"
    /\ corpus' = (JsonName(queue[ti]) :> [kind |-> "partial", data |-> NoData]) @@ corpus
    /\ GoAfter("open")
    /\ UNCHANGED <<ledger, alreadyDone, queue, cur, truns, tcalls, reachedT,
                   failedT, ledger0, prevRun, dlVars, srVars>>

\* json.dump and close
TDump ==
    /\ tpc = "dump"
    /\ corpus' = (JsonName(queue[ti]) :> [kind |-> "ok", data |-> cur]) @@ corpus
    /\ GoAfter("dump")
    /\ UNCHANGED <<ledger, alreadyDone, queue, cur, truns, tcalls, reachedT,
                   failedT, ledger0, prevRun, dlVars, srVars>>

\* save_progress, already_done.add, return True
TAppend ==
    /\ tpc = "append"
    /\ ledger' = save_progress(ledger, queue[ti])
    /\ alreadyDone' = alreadyDone \cup {queue[ti]}
    /\ GoAfter("append")
    /\ UNCHANGED <<corpus, queue, cur, truns, tcalls, reachedT, failedT, ledger0,
                   prevRun, dlVars, srVars>>

\* the for loop is over
TDone ==
    /\ tpc = "loop"
    /\ ti > Len(queue)
    /\ tpc' = "done"
    /\ UNCHANGED <<ledger, corpus, alreadyDone, queue, ti, cur, truns, tcalls,
                   reachedT, failedT, ledger0, prevRun, dlVars, srVars>>

\* the process is killed: its memory is gone, the files stay as they are
TCrash ==
    /\ TRunning
    /\ tpc' = "off"
    /\ alreadyDone' = {}
    /\ queue' = <<>>
    /\ ti' = 0
    /\ cur' = NoData
    /\ tcalls' = 0
    /\ reachedT' = {}
    /\ failedT' = {}
    /\ ledger0' = 0
    /\ UNCHANGED <<ledger, corpus, truns, prevRun, dlVars, srVars>>

InitTr ==
    /\ ledger = <<>>
    /\ corpus = NoCorpus
    /\ tpc = "off"
    /\ alreadyDone = {}
    /\ queue = <<>>
    /\ ti = 0
    /\ cur = NoData
    /\ truns = 0
    /\ tcalls = 0
    /\ reachedT = {}
    /\ failedT = {}
    /\ ledger0 = 0
    /\ prevRun = "none"

\* transcribe_audio_files on a ledger that cannot be read: the exception of
\* load_progress ends the process before the folder is listed
TLoadRaise ==
    /\ tpc \in {"off", "done"}
    /\ truns < MaxTRuns
    /\ ~ReadableLedger(ledger)
    /\ truns' = truns + 1
    /\ tpc' = "off"
    /\ alreadyDone' = {}
    /\ queue' = <<>>
    /\ ti' = 0
    /\ cur' = NoData
    /\ tcalls' = 0
    /\ reachedT' = {}
    /\ failedT' = {}
    /\ UNCHANGED <<ledger, corpus, ledger0, prevRun, dlVars, srVars>>

\* the ledgers a run can find: missing or empty, not readable, with a name
Ledgers == {<<>>, <<NotUtf8>>, <<MediaA>>, <<MediaA, NotUtf8>>}

InitLedger ==
    /\ ledger \in Ledgers
    /\ corpus = NoCorpus
    /\ tpc = "off"
    /\ alreadyDone = {}
    /\ queue = <<>>
    /\ ti = 0
    /\ cur = NoData
    /\ truns = 0
    /\ tcalls = 0
    /\ reachedT = {}
    /\ failedT = {}
    /\ ledger0 = 0
    /\ prevRun = "none"

NextLedger ==
    \/ TStart
    \/ TLoadRaise
    \/ TSkip
    \/ \E res \in Outcomes, words \in WordLists : TCall(res, words)
    \/ TOpen
    \/ TDump
    \/ TAppend
    \/ TDone

NextTr ==
    \/ TStart
    \/ TSkip
    \/ \E res \in Outcomes, words \in WordLists : TCall(res, words)
    \/ TOpen
    \/ TDump
    \/ TAppend
    \/ TDone
    \/ TCrash

\* --------------------------------------------------------------- search.py

MaxSearches == 2
MaxWorkers == 2
MaxCorpus == 3

\* threshold=80, the default of search_word_in_transcriptions
DefaultThreshold == 80
Thresholds == {DefaultThreshold, 90}

\* what the user can type
Queries == {"Kissa", "koira"}

\* str.lower() of a word
lower(w) ==
    CASE w = "Kissa" -> "kissa" [] w = "Kassa" -> "kassa" [] OTHER -> w

\* the characters of a word
Chars(w) ==
    CASE w = "kissa" -> <<"k", "i", "s", "s", "a">>
      [] w = "kassa" -> <<"k", "a", "s", "s", "a">>
      [] w = "kisa" -> <<"k", "i", "s", "a">>
      [] w = "koira" -> <<"k", "o", "i", "r", "a">>
      [] OTHER -> <<>>

RECURSIVE LCS(_, _)
\* the length of the longest common subsequence
LCS(a, b) ==
    IF a = <<>> \/ b = <<>> THEN 0
    ELSE IF Head(a) = Head(b) THEN 1 + LCS(Tail(a), Tail(b))
    ELSE LET x == LCS(Tail(a), b)
             y == LCS(a, Tail(b))
         IN  IF x >= y THEN x ELSE y

\* fuzz.ratio(s1, s2): 100 * 2 * LCS / (len(s1) + len(s2)), a float; kept
\* here is its integer part, which compares with an integer threshold as the
\* float does
ratio(s1, s2) ==
    LET a == Chars(s1)
        b == Chars(s2)
    IN  IF Len(a) + Len(b) = 0 THEN 100
        ELSE (200 * LCS(a, b)) \div (Len(a) + Len(b))

\* None
None == <<"None">>

\* the parts as they are, empty ones too
KeptAll(parts) == parts

\* [p for p in parts if p]
Kept(parts) == SelectSeq(parts, NonEmpty)

\* extract_video_info(filename): (youtube_id, video_name)
extract_video_info(filename) ==
    LET basename == SplitStem(filename)
        parts == Split(basename, "_")
        kept == Kept(parts)
    IN  IF Len(parts) < 4
        THEN [youtube_id |-> None, video_name |-> None]
        ELSE IF Len(kept) < 3
        THEN [youtube_id |-> None, video_name |-> None]
        ELSE [youtube_id |-> kept[2 + 1],
              video_name |-> IF Len(kept) > 3
                             THEN Join(SubSeq(kept, 3 + 1, Len(kept)), "_")
                             ELSE <<>>]

\* not x, for x a string or None
Falsy(x) == x = None \/ x = <<>>

\* a comparison that takes the entries up to the threshold
IsMatchBelow(similarity, t) == similarity <= t

\* a comparison that leaves out the threshold itself
IsMatchAbove(similarity, t) == similarity > t

\* if similarity >= threshold
IsMatch(similarity, t) == similarity >= t

\* the for loop of process_file over data.get('words', [])
MatchesIn(words, info, word, t) ==
    LET hit == SelectSeq(words,
                   LAMBDA e : IsMatch(ratio(lower(word), lower(e.word)), t))
    IN  [i \in 1..Len(hit) |->
            [video_id |-> info.youtube_id,
             video_name |-> info.video_name,
             matched_word |-> hit[i].word,
             start_time |-> hit[i].start,
             end_time |-> hit[i].end,
             similarity |-> ratio(lower(word), lower(hit[i].word))]]

Returned(matches) == [raised |-> FALSE, matches |-> matches]
Raised == [raised |-> TRUE, matches |-> <<>>]

\* process_file(json_file, output_folder, search_word, threshold): the list
\* it returns, or the exception it raises when the JSON value is no object
process_file(json_file, output_folder, word, t) ==
    LET info == extract_video_info(json_file)
        content == output_folder[json_file]
    IN  IF Falsy(info.youtube_id) \/ Falsy(info.video_name)
        THEN Returned(<<>>)
        ELSE IF content.kind = "partial" THEN Returned(<<>>)
        ELSE IF content.kind = "other" THEN Raised
        ELSE Returned(MatchesIn(content.data.words, info, word, t))

\* a listing that keeps every file of the folder
JsonFilesAll(output_folder) == DOMAIN output_folder

\* [f for f in os.listdir(output_folder) if f.endswith('.json')]
JsonFiles(output_folder) ==
    {f \in DOMAIN output_folder : EndsWith(f, <<".", "json">>)}

\* the files of the output folder
JsonMyTitle ==
    <<"1000", "_", "20200101", "_", "abc123", "_", "My", " ", "Title", ".", "json">>
JsonDouble ==
    <<"1000", "_", "20200101", "_", "_", "abc123", "_", "Title", ".", "json">>
JsonNoDate == <<"1000", "_", "_", "abc123", "_", "Title", ".", "json">>
JsonPlain == JsonName(MediaPlain)
JsonUnderscored ==
    <<"2000", "_", "20200301", "_", "idC", "_", "New", "_", "Name", ".", "json">>
JsonShort == <<"3000", "_", "20200401", "_", "idD", ".", "json">>
JsonA == JsonName(MediaA)
JsonC == JsonName(MediaC)
ReadMe == <<"readme", ".", "txt">>
FolderPool ==
    {JsonMyTitle, JsonDouble, JsonNoDate, JsonPlain, JsonUnderscored, JsonShort,
     JsonA, JsonC, ReadMe}

Kissa(at) == [word |-> "kissa", start |-> at, end |-> at + 1]

\* the words of each file
WordsOf(f) ==
    CASE f = JsonDouble ->
           <<[word |-> "Kassa", start |-> 2, end |-> 3],
             [word |-> "koira", start |-> 3, end |-> 4],
             [word |-> "kisa", start |-> 4, end |-> 5]>>
      [] f = JsonUnderscored -> <<Kissa(5), Kissa(7)>>
      [] OTHER -> <<Kissa(0)>>

\* the media file a JSON file was written for
MediaOf(f) == SplitStem(f) \o <<".", "mp3">>

\* what the folder holds under a name: the file transcribe_file writes for
\* the media file of that name, a file cut off in the middle, or a JSON
\* value that is no object
ContentOf(f) ==
    IF f = JsonC THEN [kind |-> "partial", data |-> NoData]
    ELSE IF f = JsonA THEN [kind |-> "other", data |-> NoData]
    ELSE IF HasVideoId(MediaOf(f))
    THEN [kind |-> "ok", data |-> TranscriptionData(MediaOf(f), WordsOf(f))]
    ELSE [kind |-> "ok",
          data |-> [file_name |-> MediaOf(f), youtube_id |-> <<>>,
                    words |-> WordsOf(f)]]

Folders ==
    {[f \in S |-> ContentOf(f)] :
        S \in {T \in SUBSET FolderPool : Cardinality(T) <= MaxCorpus}}

\* the number of times each element is in a list
BagOf(seq) ==
    [m \in Range(seq) |-> Cardinality({i \in 1..Len(seq) : seq[i] = m})]

NoFuture == [st |-> "pending",
             info |-> [youtube_id |-> None, video_name |-> None],
             res |-> Returned(<<>>)]
NoPrev == [has |-> FALSE, threshold |-> 0, max_workers |-> 0, matches |-> <<>>,
           keys |-> <<>>]

\* the key of a match: (video_id, start_time, matched_word)
Key(m) == <<m.video_id, m.start_time, m.matched_word>>
KeysOf(seq) == [i \in 1..Len(seq) |-> Key(seq[i])]

\* matches put in the place of the list
assign(old, new) == new

\* all_matches.extend(matches)
extend(old, new) == old \o new

\* an exception of a worker that ends the search
ExceptionEnds == "failed"

\* except Exception as exc: the warning is printed and the loop goes on
AfterException == "work"

InState(st) == {f \in DOMAIN fut : fut[f].st = st}

\* main() and search_word_in_transcriptions up to the futures: the listing,
\* the exit when it is empty, one submit for every listed file
SStart(t, w) ==
    /\ spc \in {"off", "done", "exit"}
    /\ searches < MaxSearches
    /\ searches' = searches + 1
    /\ search_word' = lower(rawQuery)
    /\ threshold' = t
    /\ max_workers' = w
    /\ all_matches' = <<>>
    /\ fut' = [f \in JsonFiles(corpus) |-> NoFuture]
    /\ scored' = [f \in JsonFiles(corpus) |-> 0]
    /\ prev' = IF spc = "done"
               THEN [has |-> TRUE, threshold |-> threshold,
                     max_workers |-> max_workers, matches |-> BagOf(all_matches),
                     keys |-> BagOf(KeysOf(all_matches))]
               ELSE NoPrev
    /\ spc' = IF JsonFiles(corpus) = {} THEN "exit" ELSE "work"
    /\ UNCHANGED <<rawQuery, dlVars, trVars>>

\* a worker process that is free takes a submitted call
WorkerTake(f) ==
    /\ spc = "work"
    /\ f \in InState("pending")
    /\ Cardinality(InState("running")) < max_workers
    /\ fut' = [fut EXCEPT ![f].st = "running"]
    /\ UNCHANGED <<spc, rawQuery, search_word, threshold, max_workers, all_matches,
                   scored, searches, prev, dlVars, trVars>>

\* the worker runs process_file to its end
WorkerFinish(f) ==
    /\ spc = "work"
    /\ f \in InState("running")
    /\ fut' = [fut EXCEPT ![f] =
                 [st |-> "finished",
                  info |-> extract_video_info(f),
                  res |-> process_file(f, corpus, search_word, threshold)]]
    /\ scored' = [scored EXCEPT ![f] = @ + 1]
    /\ UNCHANGED <<spc, rawQuery, search_word, threshold, max_workers, all_matches,
                   searches, prev, dlVars, trVars>>

\* one pass of the as_completed loop: future.result(), extend, or the
\* warning of the except branch
Collect(f) ==
    /\ spc = "work"
    /\ f \in InState("finished")
    /\ fut' = [fut EXCEPT ![f].st = "collected"]
    /\ all_matches' = IF fut[f].res.raised \/ fut[f].res.matches = <<>>
                      THEN all_matches
                      ELSE extend(all_matches, fut[f].res.matches)
    /\ spc' = IF fut[f].res.raised THEN AfterException ELSE "work"
    /\ UNCHANGED <<rawQuery, search_word, threshold, max_workers, scored,
                   searches, prev, dlVars, trVars>>

\* the loop is over: the results are displayed
SDone ==
    /\ spc = "work"
    /\ InState("collected") = DOMAIN fut
    /\ spc' = "done"
    /\ UNCHANGED <<rawQuery, search_word, threshold, max_workers, fut, all_matches,
                   scored, searches, prev, dlVars, trVars>>

\* no search runs
InitSr ==
    /\ spc = "off"
    /\ rawQuery = "Kissa"
    /\ search_word = "kissa"
    /\ threshold = DefaultThreshold
    /\ max_workers = 1
    /\ fut = [f \in {} |-> NoFuture]
    /\ all_matches = <<>>
    /\ scored = [f \in {} |-> 0]
    /\ searches = 0
    /\ prev = NoPrev

\* the output folder holds any files of the pool; the user types a query
InitSearch ==
    /\ spc = "off"
    /\ rawQuery \in Queries
    /\ search_word = lower(rawQuery)
    /\ threshold = DefaultThreshold
    /\ max_workers = 1
    /\ fut = [f \in {} |-> NoFuture]
    /\ all_matches = <<>>
    /\ scored = [f \in {} |-> 0]
    /\ searches = 0
    /\ prev = NoPrev
    /\ corpus \in Folders
    /\ ledger = <<>>
    /\ tpc = "off"
    /\ alreadyDone = {}
    /\ queue = <<>>
    /\ ti = 0
    /\ cur = NoData
    /\ truns = 0
    /\ tcalls = 0
    /\ reachedT = {}
    /\ failedT = {}
    /\ ledger0 = 0
    /\ prevRun = "none"

NextSr ==
    \/ \E t \in Thresholds, w \in 1..MaxWorkers : SStart(t, w)
    \/ \E f \in FolderPool : WorkerTake(f)
    \/ \E f \in FolderPool : WorkerFinish(f)
    \/ \E f \in FolderPool : Collect(f)
    \/ SDone

\* ------------------------------------------------------------ specifications

vars == <<dlVars, trVars, srVars>>

\* download.py: runs of main(), killed at any point and started again
Init == InitDl /\ InitTr /\ InitSr
Next == NextDl
Spec == Init /\ [][Next]_vars

\* the download process does not run; the folder holds any of the media files
InitFolder ==
    /\ file = Absent
    /\ disk \in SUBSET MediaPool
    /\ pc = "off"
    /\ env = "ok"
    /\ vd = EmptyData
    /\ newVideos = <<>>
    /\ stopFetching = FALSE
    /\ pages = 0
    /\ fmt = "mp3"
    /\ order = <<>>
    /\ idx = 0
    /\ completed = 0
    /\ runs = 0
    /\ att = NoAttempts
    /\ failedIds = {}
    /\ killed = 0
    /\ init0 = [videos |-> <<>>, disk |-> disk, fmt |-> "mp3"]
    /\ seen = {}
    /\ ignoredDiff = FALSE
    /\ lastPage = NoPage

\* transcribe.py: runs of transcribe_audio_files over an unchanged folder,
\* killed at any point and started again
InitFolderTr == InitFolder /\ InitTr /\ InitSr
SpecTr == InitFolderTr /\ [][NextTr]_vars

\* download.py: download_videos over any catalog and folder, killed between
\* two items and run again
InitResumeTr == InitResume /\ InitTr /\ InitSr
\* search.py: searches over an unchanged output folder, one after another
InitFolderSr == InitFolder /\ disk = {} /\ InitSearch
SpecSearch == InitFolderSr /\ [][NextSr]_vars

SpecResume == InitResumeTr /\ [][NextResume]_vars

\* one run of download.py, then runs of transcribe_audio_files over the
\* folder it has filled
FirstRun == runs = 0 /\ Start("ok", "ok")
TranscribeAfter == pc \in {"done", "error"} /\ TStart

NextPipeline ==
    \/ FirstRun
    \/ ListNothing
    \/ ChooseSame
    \/ DlSkip
    \/ DlRaise
    \/ DlExisting
    \/ \E res \in Outcomes : DlFetch(res, TRUE)
    \/ WriteOpen
    \/ WriteDump
    \/ DlDone
    \/ TranscribeAfter
    \/ TSkip
    \/ \E res \in Outcomes, words \in WordLists : TCall(res, words)
    \/ TOpen
    \/ TDump
    \/ TAppend
    \/ TDone

SpecPipeline == InitResumeTr /\ [][NextPipeline]_vars

\* runs of transcribe_audio_files on every kind of progress ledger
InitFolderLedger == InitFolder /\ InitLedger /\ InitSr
SpecLedger == InitFolderLedger /\ [][NextLedger]_vars

\* runs of download.py on every kind of videos.json
InitLoadTr == InitLoad /\ InitTr /\ InitSr
SpecLoad == InitLoadTr /\ [][NextLoad]_vars

\* download.py run repeatedly to its end over any catalog; a process that
\* can take a step takes it
SpecConverge == InitResumeTr /\ [][NextConverge]_vars /\ WF_vars(NextConverge)

\* ------------------------------------------------ properties: SpecResume

\* what videos.json holds of an id: the flags of the entries with that id
PersistedFlags(id) ==
    IF file.kind # "ok" THEN {}
    ELSE {file.data.videos[j].downloaded :
             j \in {k \in 1..Len(file.data.videos) : file.data.videos[k].id = id}}

FirstRes == [i \in Ids |-> IF att[i] = <<>> THEN "fail" ELSE att[i][1]]
LastRes == [i \in Ids |-> IF att[i] = <<>> THEN "fail" ELSE att[i][Len(att[i])]]

\* the second run has ended, the first was killed between two items
ResumedRunOver == pc \in {"done", "error"} /\ runs = 2 /\ killed = 1

\* the items the first run found flagged, or with their file in the folder
DoneAtStart ==
    {init0.videos[i].id : i \in
        {j \in 1..Len(init0.videos) :
            \/ init0.videos[j].downloaded
            \/ /\ get_unix_timestamp_and_date_string(init0.videos[j].publishedAt)
                      # ValueError
               /\ check_existing_file(OutputBase(init0.videos[j]), init0.disk,
                                      init0.fmt) # {}}}

\* C1 as stated: the killed run and the run after it end with the catalog of
\* one uninterrupted run, and yt-dlp is called at most once for each item.
C1_Resumable_Stated ==
    ResumedRunOver =>
        /\ file.data.videos
             = Uninterrupted(init0.videos, init0.disk, init0.fmt, FirstRes)
        /\ \A i \in Ids : Len(att[i]) <= 1

\* C1 as amended: the two runs end with the catalog of one uninterrupted run
\* in which yt-dlp does for each item what it did at the item's last call;
\* an item is called a second time only after its first call failed, no
\* item is called after a call that succeeded, and an item that was flagged
\* or had its file in the folder is never called.
C1_Resumable ==
    ResumedRunOver =>
        /\ file.data.videos
             = Uninterrupted(init0.videos, init0.disk, init0.fmt, LastRes)
        /\ \A i \in Ids :
              /\ Len(att[i]) <= 2
              /\ Len(att[i]) = 2 => att[i][1] = "fail"
        /\ \A i \in DoneAtStart : att[i] = <<>>

\* both runs are over: one item was fetched in the killed run, failed, and
\* was fetched again; another was fetched once
C1_Witness ==
    /\ pc = "done"
    /\ runs = 2
    /\ killed = 1
    /\ \E i, j \in Ids : att[i] = <<"fail", "ok">> /\ att[j] = <<"ok">>
    /\ DoneAtStart # {}

\* C12: when download_videos stands at an unflagged item whose file is in the
\* folder with an extension accepted for the format, its step sets the flag
\* and goes to the write without a call of yt-dlp, and the write that
\* follows puts the flag into videos.json.
C12_OnDiskFallback ==
    [][/\ (/\ AtItem
           /\ ~Cur.downloaded
           /\ get_unix_timestamp_and_date_string(Cur.publishedAt) # ValueError
           /\ check_existing_file(OutputBase(Cur), disk, fmt) # {}
           /\ pc' # "off")
          => (/\ vd'.videos[order[idx]].downloaded
              /\ pc' = "dw"
              /\ att' = att
              /\ disk' = disk)
       /\ (pc = "dw2" /\ pc' = "dl")
          => (/\ file'.kind = "ok"
              /\ \E j \in 1..Len(file'.data.videos) :
                    /\ file'.data.videos[j].id = vd.videos[order[idx]].id
                    /\ file'.data.videos[j].downloaded)]_vars

\* the first item was not flagged and its file was in the folder: it is
\* flagged in videos.json, yt-dlp was never called for it, and the run is at
\* the second item
C12_Witness ==
    /\ pc = "dl"
    /\ runs = 1
    /\ idx = 2
    /\ ~init0.videos[order[1]].downloaded
    /\ vd.videos[order[1]].id \in DoneAtStart
    /\ att[vd.videos[order[1]].id] = <<>>
    /\ PersistedFlags(vd.videos[order[1]].id) = {TRUE}

NumFlagged(videos) == Cardinality({i \in 1..Len(videos) : videos[i].downloaded})

\* C24: the tally of a run of download_videos that was not interrupted gives
\* as completed the items flagged in this run, and completed, the items
\* flagged before the run and the items that failed add up to the total.
C24_TallyPartitions ==
    (pc = "done" /\ runs = 1) =>
        /\ Tally.completed = NumFlagged(vd.videos) - NumFlagged(init0.videos)
        /\ Tally.completed + NumFlagged(init0.videos) + Cardinality(failedIds)
             = Tally.total

\* --------------------------------------------------- properties: SpecLoad

\* C21: a run that starts on a videos.json that is missing or does not hold
\* a catalog goes on with the empty catalog and does not end with an
\* exception.
C21_LoadNeverFatal ==
    [][(runs' = runs + 1 /\ file.kind # "ok")
          => (vd' = EmptyData /\ pc' # "error")]_vars

\* ------------------------------------------------- properties: SpecLedger

\* C22: a run of transcribe_audio_files that finds the progress ledger
\* missing or not readable starts with no file considered done and goes on
\* to the input files.
C22_LedgerNeverFatal ==
    [][(truns' = truns + 1
          /\ (ledger = <<>> \/ ~ReadableLedger(ledger)))
          => (alreadyDone' = {} /\ tpc' = "loop")]_vars

\* ----------------------------------------------- properties: SpecPipeline

\* the item's action is over and its outcome is on record: the flag is in
\* videos.json, or yt-dlp failed for it in this run
SettledItem(j) ==
    \/ vd.videos[j].downloaded /\ PersistedFlags(vd.videos[j].id) = {TRUE}
    \/ vd.videos[j].id \in failedIds

\* the file is in the progress ledger, or its transcription failed in this run
SettledFile(f) == f \in Range(ledger) \/ f \in failedT

\* C25: yt-dlp is called for an item only from the download loop itself, when
\* every item with an older publishedAt has its flag in videos.json or has
\* failed; the engine is called for a file only from the for loop itself,
\* when every .mp3 file with a smaller name is in the progress ledger or
\* has failed.
C25_OneAtATimeInOrder ==
    [][/\ att' # att =>
            /\ pc = "dl"
            /\ \A j \in 1..Len(vd.videos) :
                  StrRank(vd.videos[j].publishedAt) < StrRank(Cur.publishedAt)
                      => SettledItem(j)
            /\ \A k \in 1..(idx - 1) : SettledItem(order[k])
       /\ tcalls' = tcalls + 1 =>
            /\ tpc = "loop"
            /\ \A f \in disk :
                  (EndsWith(f, <<".", "mp3">>) /\ PathRank(f) < PathRank(queue[ti]))
                      => SettledFile(f)
            /\ \A k \in 1..(ti - 1) : SettledFile(queue[k])]_vars

\* both stages have acted on two items, one after the other
C25_Witness ==
    /\ Len(att["idA"]) = 1
    /\ Len(att["idC"]) = 1
    /\ tpc = "done"
    /\ tcalls = 2
    /\ Range(ledger) = {MediaA, MediaC}

\* ------------------------------------------------- properties: SpecSearch

Scored(f) == f \in DOMAIN fut /\ fut[f].st \in {"finished", "collected"}

\* the JSON files of the folder
Listed == {f \in DOMAIN corpus : EndsWith(f, <<".", "json">>)}

\* C14: two searches with the same query and threshold over the same folder
\* return the same multiset of (video_id, start_time, matched_word), whatever
\* their worker counts and the order in which their workers finish.
C14_PartitionInvariance ==
    (spc = "done" /\ prev.has /\ prev.threshold = threshold) =>
        BagOf(KeysOf(all_matches)) = prev.keys

\* two searches with one and with two workers have ended with matches of two
\* files
C14_Witness ==
    /\ spc = "done"
    /\ prev.has
    /\ prev.threshold = threshold
    /\ prev.max_workers # max_workers
    /\ \E i, j \in 1..Len(all_matches) :
          all_matches[i].video_name # all_matches[j].video_name

Count(seq, m) == Cardinality({i \in 1..Len(seq) : seq[i] = m})

RECURSIVE CountIn(_, _)
\* how often m is among the matches process_file returns for the files of S
CountIn(S, m) ==
    IF S = {} THEN 0
    ELSE LET f == CHOOSE g \in S : TRUE
         IN  Count(process_file(f, corpus, search_word, threshold).matches, m)
               + CountIn(S \ {f}, m)

\* C15: when the search has ended, process_file has been called exactly once
\* for every JSON file of the folder and for no other file, and every match
\* is in all_matches as often as the files' lists hold it.
C15_CompleteUnion ==
    spc = "done" =>
        /\ DOMAIN scored = Listed
        /\ \A f \in Listed : scored[f] = 1
        /\ \A f \in Listed :
              \A m \in Range(process_file(f, corpus, search_word, threshold).matches) :
                  Count(all_matches, m) = CountIn(Listed, m)
        /\ \A m \in Range(all_matches) : CountIn(Listed, m) >= 1

\* a search with two workers over two JSON files and one other file has
\* ended with three matches
C15_Witness ==
    /\ spc = "done"
    /\ max_workers = 2
    /\ Cardinality(Listed) = 2
    /\ ReadMe \in DOMAIN corpus
    /\ Len(all_matches) >= 3

\* the files whose names follow the scheme and that hold a transcript
ValidFiles == {JsonMyTitle, JsonDouble, JsonUnderscored}
ItemIdOf(f) == IF f = JsonUnderscored THEN <<"idC">> ELSE <<"abc123">>

\* C16: for a validly named file holding a transcript, process_file returns
\* one match for each word entry whose similarity to the query is at least
\* the threshold, in the entries' order, and none for the others; a match
\* carries the id of the file name and the entry's word, start and end.
C16_PerFileMatching ==
    \A f \in ValidFiles :
        Scored(f) =>
            LET hits == SelectSeq(corpus[f].data.words,
                           LAMBDA e : ratio(search_word, lower(e.word)) >= threshold)
                got == fut[f].res
            IN  /\ ~got.raised
                /\ Len(got.matches) = Len(hits)
                /\ \A i \in 1..Len(hits) :
                      /\ got.matches[i].video_id = ItemIdOf(f)
                      /\ got.matches[i].matched_word = hits[i].word
                      /\ got.matches[i].start_time = hits[i].start
                      /\ got.matches[i].end_time = hits[i].end
                      /\ got.matches[i].similarity
                           = ratio(search_word, lower(hits[i].word))
                /\ (f = JsonMyTitle /\ search_word = "kissa" /\ threshold = 80)
                      => /\ Len(got.matches) = 1
                         /\ got.matches[1].similarity = 100

\* "kissa" at threshold 80: the file with the single word kissa gave one
\* match of similarity 100; of the three words of the other file two are
\* matches, one of them Kassa, whose similarity is the threshold itself
C16_Witness ==
    /\ search_word = "kissa"
    /\ threshold = 80
    /\ Scored(JsonMyTitle)
    /\ Len(fut[JsonMyTitle].res.matches) = 1
    /\ Scored(JsonDouble)
    /\ \E i \in 1..Len(fut[JsonDouble].res.matches) :
          /\ fut[JsonDouble].res.matches[i].matched_word = "Kassa"
          /\ fut[JsonDouble].res.matches[i].similarity = 80
    /\ Len(fut[JsonDouble].res.matches) = 2

\* C17: of two searches with the same query over the same folder, the one
\* with the lower threshold returns every match the other returns.
C17_ThresholdMonotone ==
    /\ (spc = "done" /\ prev.has /\ prev.threshold < threshold) =>
          \A m \in Range(all_matches) : m \in DOMAIN prev.matches
    /\ (spc = "done" /\ prev.has /\ threshold < prev.threshold) =>
          \A m \in DOMAIN prev.matches : m \in Range(all_matches)

\* a search at 80 and then one at 90: the second returned matches, and the
\* first returned a match the second did not
C17_Witness ==
    /\ spc = "done"
    /\ prev.has
    /\ prev.threshold = 80
    /\ threshold = 90
    /\ all_matches # <<>>
    /\ \E m \in DOMAIN prev.matches : m \notin Range(all_matches)

\* C18 as stated: 1000__abc123_Title.json parses to the id abc123 and the
\* title Title.
C18_DoubleUnderscore_Stated ==
    Scored(JsonNoDate) =>
        fut[JsonNoDate].info = [youtube_id |-> <<"abc123">>,
                                video_name |-> <<"Title">>]

\* C18 as amended: 1000_20200101__abc123_Title.json parses to the id abc123
\* and the title Title; 1000__abc123_Title.json, which has three non-empty
\* segments, parses to the id Title and the empty title, and gives no match.
C18_DoubleUnderscore ==
    /\ Scored(JsonDouble) =>
          fut[JsonDouble].info = [youtube_id |-> <<"abc123">>,
                                  video_name |-> <<"Title">>]
    /\ Scored(JsonNoDate) =>
          /\ fut[JsonNoDate].info = [youtube_id |-> <<"Title">>,
                                     video_name |-> <<>>]
          /\ fut[JsonNoDate].res = Returned(<<>>)

\* both files have been through process_file
C18_Witness == Scored(JsonDouble) /\ Scored(JsonNoDate)

\* the non-empty segments of the base name
Segments(f) == SelectSeq(Split(SplitStem(f), "_"), LAMBDA p : p # <<>>)

\* process_file returned at "if not youtube_id or not video_name"
Skipped(f) == Falsy(fut[f].info.youtube_id) \/ Falsy(fut[f].info.video_name)

\* C19: a file is skipped exactly when its base name has fewer than three
\* non-empty segments; otherwise its id is the third of them and its title
\* the others joined by "_"; and the id is the youtube_id transcribe_file
\* wrote into the file.
C19_ParsingRule ==
    \A f \in Listed :
        Scored(f) =>
            /\ Skipped(f) <=> Len(Segments(f)) < 3
            /\ Len(Segments(f)) >= 3 =>
                  /\ fut[f].info.youtube_id = Segments(f)[3]
                  /\ fut[f].info.video_name
                       = Join(SubSeq(Segments(f), 4, Len(Segments(f))), "_")
                  /\ (corpus[f].kind = "ok" /\ HasVideoId(MediaOf(f)))
                        => corpus[f].data.youtube_id = fut[f].info.youtube_id

\* the files whose name has fewer than three non-empty segments or whose
\* content is no transcript
Malformed ==
    {f \in Listed : Len(Segments(f)) < 3 \/ corpus[f].kind # "ok"}

C13_Converges ==
    <>[](\A i \in 1..Len(init0.videos) :
            PersistedFlags(init0.videos[i].id) = {TRUE})

\* -------------------------------------------------------- properties: Spec

\* the ids of the catalog
KnownIds == {vd.videos[i].id : i \in 1..Len(vd.videos)}

\* C28: a listed page is gone through to its end, its items that are not in
\* the catalog are added to new_videos in the page's order, whether or not
\* the page holds a known id; the next page is requested only after a page
\* without a known id that carries a nextPageToken; and the loop is not at
\* its head when the listing has no page left.
C28_Pagination ==
    [][(pc = "fetch" /\ lastPage'.kind = "page" /\ pages' = pages + 1) =>
          LET items == lastPage'.items
              unknown == SelectSeq(items, LAMBDA it : it.id \notin KnownIds)
              hasKnown == \E i \in 1..Len(items) : items[i].id \in KnownIds
          IN  /\ newVideos' = newVideos \o [i \in 1..Len(unknown) |->
                                               Item(unknown[i], FALSE)]
              /\ hasKnown => pc' # "fetch"
              /\ pc' = "fetch" <=> (~hasKnown /\ lastPage'.more)
              /\ pc' = "fetch" => pages' < MaxPages]_vars

\* the page began with a known id, held an unknown item after it and carried
\* a nextPageToken: the item is in new_videos and the loop is over
C28_Witness ==
    /\ pc = "fw"
    /\ pages = 1
    /\ lastPage.kind = "page"
    /\ lastPage.more
    /\ Len(lastPage.items) = 2
    /\ \E i \in 1..Len(file.data.videos) :
          file.data.videos[i].id = lastPage.items[1].id
    /\ Len(newVideos) = 1
    /\ newVideos[1].id = lastPage.items[2].id

\* C29: when a listing request raises HttpError no further page is
\* requested, and the new videos of the pages before it are merged into the
\* catalog and written to videos.json.
C29_HttpErrorKeepsCollected ==
    /\ lastPage.kind = "error" => pc # "fetch"
    /\ (lastPage.kind = "error" /\ newVideos # <<>> /\ Running) =>
          /\ pc \in {"fw", "fw2", "choose"}
          /\ \A i \in 1..Len(newVideos) : newVideos[i].id \in KnownIds
          /\ pc = "choose" => file = Stored(vd)

\* the second request raised HttpError; the new videos of the first page are
\* in videos.json
C29_Witness ==
    /\ pc = "choose"
    /\ lastPage.kind = "error"
    /\ pages = 2
    /\ newVideos # <<>>
    /\ file.kind = "ok"
    /\ \A i \in 1..Len(newVideos) : TRUE \in {file.data.videos[j].id = newVideos[i].id :
                                               j \in 1..Len(file.data.videos)}

\* C23: a run of download.py that found YT_API_KEY or YT_CHANNEL missing
\* takes no step of the download loop and changes neither videos.json nor
\* the download folder.
C23_ConfigErrorIsFatal ==
    [][(env # "ok" /\ Running) =>
          /\ file' = file
          /\ disk' = disk
          /\ pc' \notin {"dl", "dw", "dw2"}]_vars

\* C11: every catalog in videos.json has pairwise distinct ids and lists its
\* items in ascending publishedAt order.
C11_DistinctAndSorted ==
    file.kind = "ok" =>
        /\ \A i, j \in 1..Len(file.data.videos) :
              file.data.videos[i].id = file.data.videos[j].id => i = j
        /\ \A i, j \in 1..Len(file.data.videos) :
              i < j => StrRank(file.data.videos[i].publishedAt)
                         <= StrRank(file.data.videos[j].publishedAt)

\* fetch_new_videos has written a catalog of two or more items from a
\* listing that held one id twice and a newer item before an older one
C11_Witness ==
    /\ pc = "choose"
    /\ file = Stored(vd)
    /\ Len(vd.videos) >= 2
    /\ \E i, j \in 1..Len(newVideos) :
          i < j /\ newVideos[i].id = newVideos[j].id
    /\ \E i, j \in 1..Len(newVideos) :
          i < j /\ StrRank(newVideos[i].publishedAt) > StrRank(newVideos[j].publishedAt)

\* C4: a run of download_videos that an item's failure has hit still goes
\* through every item of the catalog, and the items whose yt-dlp call failed
\* keep downloaded = false.
C4_FailureNeverAborts ==
    (pc \in {"done", "error"} /\ order # <<>>) =>
        /\ idx > Len(order)
        /\ \A i \in 1..Len(vd.videos) :
              vd.videos[i].id \in failedIds => ~vd.videos[i].downloaded

\* C7: whenever download_videos is between two items, every downloaded flag
\* it holds in memory is in videos.json.
C7_SavedBeforeNextItem ==
    pc = "dl" =>
        \A i \in 1..Len(vd.videos) :
            vd.videos[i].downloaded => TRUE \in PersistedFlags(vd.videos[i].id)

\* the first run has fetched an item, written the catalog, and stands at the
\* next item
C7_Witness ==
    /\ pc = "dl"
    /\ runs = 1
    /\ idx = 2
    /\ idx <= Len(order)
    /\ vd.videos[order[1]].downloaded
    /\ TRUE \in PersistedFlags(vd.videos[order[1]].id)
    /\ ~Cur.downloaded

\* C8: after a kill at any point of write_videos_json, videos.json is the
\* complete previous or the complete new catalog, never a part of one.
C8_AtomicSave == pc = "off" => file.kind # "partial"

\* C9: videos.json, when it holds a catalog, holds every id it has ever
\* held, and a flag that was once true in it is true.
C9_NeverRegresses ==
    file.kind = "ok" =>
        \A p \in seen :
            /\ PersistedFlags(p.id) # {}
            /\ p.downloaded => PersistedFlags(p.id) = {TRUE}

\* C10: fetch_new_videos keeps every entry of the catalog as it is (name,
\* publishedAt, downloaded), and when every listed id is in the catalog
\* already it changes neither the catalog nor videos.json.
C10_MergeKeepsFirstSeen ==
    [][(pc = "fetch" /\ pc' \in {"fetch", "fw", "choose"}) =>
          /\ \A i \in 1..Len(vd.videos) :
                \E j \in 1..Len(vd'.videos) : vd'.videos[j] = vd.videos[i]
          /\ newVideos' = <<>> => (vd' = vd /\ file' = file)]_vars

\* the listing has repeated an id of the catalog under another title, has
\* listed nothing new, and the catalog, which holds a downloaded item, is as
\* it was loaded
C10_Witness ==
    /\ pc = "choose"
    /\ ignoredDiff
    /\ newVideos = <<>>
    /\ \E i \in 1..Len(vd.videos) : vd.videos[i].downloaded
    /\ file = Stored(vd)

\* ---------------------------------------------------- properties: SpecTr

LedgerNames == Range(ledger)

\* C2: the transcription engine is never called for a file whose name is a
\* line of the ledger when the for loop reaches the file, in any run, after
\* any number of kills and restarts.
C2_LedgerNameNotReprocessed ==
    [][tcalls' = tcalls + 1 => queue[ti] \notin LedgerNames]_vars

\* a later run has reached a file of the ledger and has gone past it without
\* a call
C2_Witness ==
    /\ tpc = "loop"
    /\ truns >= 2
    /\ ti > 1
    /\ queue[ti - 1] \in LedgerNames
    /\ queue[ti - 1] \in reachedT
    /\ tcalls = 0

C5_FailureIsLocal ==
    /\ \A f \in failedT : f \notin LedgerNames
    /\ tpc = "done" => reachedT = Range(queue)

\* a run is over in which one file failed and a later file was transcribed
\* and appended to the ledger
C5_Witness ==
    /\ tpc = "done"
    /\ \E f \in failedT : \E k \in (ledger0 + 1)..Len(ledger) :
           PathRank(f) < PathRank(ledger[k])

\* C6: in every state, after any kill, every name in the ledger has its
\* completely written transcript record in the output folder.
C6_RecordBeforeLedger ==
    \A k \in 1..Len(ledger) :
        /\ JsonName(ledger[k]) \in DOMAIN corpus
        /\ corpus[JsonName(ledger[k])].kind = "ok"
        /\ corpus[JsonName(ledger[k])].data.file_name = ledger[k]

\* the process was killed between open() and the end of json.dump, after
\* another file was completed
C6_Witness ==
    /\ tpc = "off"
    /\ Len(ledger) >= 1
    /\ \E j \in DOMAIN corpus : corpus[j].kind = "partial"

\* C26 as stated: a complete record of the output folder is never written
\* again.
C26_RecordWrittenOnce_Stated ==
    [][\A j \in DOMAIN corpus :
          corpus[j].kind = "ok" => corpus'[j] = corpus[j]]_vars

\* C26 as amended: a complete record whose media file name is in the
\* progress file is never written again.
C26_RecordWrittenOnce ==
    [][\A j \in DOMAIN corpus :
          (corpus[j].kind = "ok" /\ corpus[j].data.file_name \in LedgerNames)
             => corpus'[j] = corpus[j]]_vars

\* a run that followed a killed run has ended: every name of the progress
\* file has its complete record, and the run went over all of them
C26_Witness ==
    /\ tpc = "done"
    /\ prevRun = "killed"
    /\ ledger0 >= 1
    /\ Len(ledger) > ledger0
    /\ \A k \in 1..Len(ledger) :
          /\ JsonName(ledger[k]) \in DOMAIN corpus
          /\ corpus[JsonName(ledger[k])].kind = "ok"
          /\ ledger[k] \in reachedT

\* C27: every step leaves the progress file as a prefix of what it is after
\* the step; a step that changes it is the append that ends a successful
\* transcription and adds the name of that file as one line; a run that
\* reaches its end has appended one line for each of its successful
\* transcriptions.
C27_LedgerAppendOnly ==
    [][/\ IsPrefix(ledger, ledger')
       /\ ledger' # ledger =>
             /\ tpc = "append"
             /\ ledger' = Append(ledger, queue[ti])
             /\ queue[ti] \notin failedT
       /\ tpc' = "done" =>
             Len(ledger') = ledger0' + tcalls' - Cardinality(failedT')]_vars

\* a later run has appended a line after the lines of the runs before it
C27_Witness ==
    /\ truns >= 2
    /\ tpc = "loop"
    /\ ledger0 >= 1
    /\ Len(ledger) = ledger0 + 1
    /\ tcalls = 1
    /\ failedT = {}

====
